---- MODULE Spec2Model ----
(***************************************************************************)
(* Model of src/virgilio.py: class Virgilio, a reader of the 34 canto      *)
(* files of a directory, with per-canto queries, corpus-wide aggregates    *)
(* and the word-count export to word_counts.json.                          *)
(*                                                                         *)
(* A Python str is a sequence of one-character strings.  A canto file is   *)
(* its text content (a str) or Unreadable.  A Python dict is the sequence  *)
(* of its <<key, value>> items in insertion order.                         *)
(***************************************************************************)
EXTENDS Integers, Sequences, FiniteSets, TLC

VARIABLES files, wordCounts, pc, call, result, proc, log

vars == <<files, wordCounts, pc, call, result, proc, log>>

(***************************************************************************)
(* Bounds of the model.                                                    *)
(***************************************************************************)
\* longest text of the varied canto file, in characters
MaxLen == 4
\* most lines of a canto file of the line-count corpora
MaxLines == 2
\* largest num_lines argument tried
MaxNumLines == 3

(***************************************************************************)
(* Program constants.                                                      *)
(***************************************************************************)
\* range(1, 35): the cantos are numbered 1..LastCanto
LastCanto == 34
\* count_verses(canto_number)//3
TercetSize == 3
\* json.dump(..., indent=4)
Indent == 4

Cantos == 1..LastCanto

NL == "\n"
QUOTE == "\""
BACKSLASH == "\\"

\* the characters str.strip() removes, among the characters of the model
Whitespace == {" ", NL}

(***************************************************************************)
(* Python str primitives used by the class.                                *)
(***************************************************************************)
\* sep.join(parts)
RECURSIVE Join(_, _)
Join(sep, parts) ==
    IF parts = <<>> THEN <<>>
    ELSE IF Len(parts) = 1 THEN parts[1]
    ELSE parts[1] \o sep \o Join(sep, Tail(parts))

\* s.startswith(w, at p), p counted from 0
MatchAt(s, w, p) ==
    /\ p + Len(w) <= Len(s)
    /\ \A i \in 1..Len(w) : s[p + i] = w[i]

\* w in s
Contains(s, w) == \E p \in 0..Len(s) : MatchAt(s, w, p)

\* s.count(w): scan from the left, skip past each occurrence found
RECURSIVE CountFrom(_, _, _)
CountFrom(s, w, p) ==
    IF p + Len(w) > Len(s) THEN 0
    ELSE IF MatchAt(s, w, p)
         THEN 1 + CountFrom(s, w, p + (IF Len(w) = 0 THEN 1 ELSE Len(w)))
         ELSE CountFrom(s, w, p + 1)

\* s.count(w), were occurrences that overlap counted
StrCountOverlapping(s, w) ==
    Cardinality({p \in 0..Len(s) : MatchAt(s, w, p)})

StrCount(s, w) == CountFrom(s, w, 0)

\* s.strip()
RECURSIVE LStrip(_)
LStrip(s) ==
    IF s # <<>> /\ Head(s) \in Whitespace THEN LStrip(Tail(s)) ELSE s

RECURSIVE RStrip(_)
RStrip(s) ==
    IF s # <<>> /\ s[Len(s)] \in Whitespace
    THEN RStrip(SubSeq(s, 1, Len(s) - 1)) ELSE s

Strip(s) == RStrip(LStrip(s))

(***************************************************************************)
(* Text-mode file reading.                                                 *)
(***************************************************************************)
\* length of the line that starts the text t: up to and including the
\* first newline, or all of t when it has none
RECURSIVE LineLen(_)
LineLen(t) ==
    IF t = <<>> THEN 0
    ELSE IF Head(t) = NL THEN 1
    ELSE 1 + LineLen(Tail(t))

\* file.readlines(): the lines of the rest of the file, terminators kept
RECURSIVE ReadLines(_)
ReadLines(t) ==
    IF t = <<>> THEN <<>>
    ELSE LET n == LineLen(t)
         IN  <<SubSeq(t, 1, n)>> \o ReadLines(SubSeq(t, n + 1, Len(t)))

\* [file.readline() for number in range(k)]: readline() at end of file
\* returns the empty string
RECURSIVE ReadLineTimes(_, _)
ReadLineTimes(t, k) ==
    IF k <= 0 THEN <<>>
    ELSE LET n == LineLen(t)
         IN  <<SubSeq(t, 1, n)>> \o ReadLineTimes(SubSeq(t, n + 1, Len(t)), k - 1)

RECURSIVE StripAll(_)
StripAll(lines) ==
    IF lines = <<>> THEN <<>>
    ELSE <<Strip(Head(lines))>> \o StripAll(Tail(lines))

(***************************************************************************)
(* Values.                                                                 *)
(***************************************************************************)
\* a canto file on disk: text is what open(...).read() would give
File(t) == [readable |-> TRUE, text |-> t]
Unreadable == [readable |-> FALSE, text |-> <<>>]

\* the path of word_counts.json among the paths of the directory; canto n
\* has path n
WordCountsPath == 0

\* a canto_number argument: an int, or a value of another type
IntArg(n) == [isint |-> TRUE, v |-> n]
NonIntArg(n) == [isint |-> FALSE, v |-> n]

\* the num_lines argument: None, or an int
Unset == [given |-> FALSE, v |-> 0]
Given(k) == [given |-> TRUE, v |-> k]
Falsy(num_lines) == ~num_lines.given \/ num_lines.v = 0

\* what a call gives back: a returned value, in the field of its Python
\* type (tag), or a raised exception (tag is its class, path the file it
\* names); opened is the set of paths the call opened
Outcome ==
    [ok |-> TRUE, tag |-> "none", opened |-> {}, path |-> 0,
     int |-> 0, str |-> <<>>, list |-> <<>>, lists |-> <<>>, dict |-> <<>>,
     longest |-> [canto_number |-> 0, canto_len |-> 0], float |-> <<0, 1>>]

ReturnInt(n, opened) ==
    [Outcome EXCEPT !.tag = "int", !.int = n, !.opened = opened]
ReturnStr(s, opened) ==
    [Outcome EXCEPT !.tag = "str", !.str = s, !.opened = opened]
ReturnList(l, opened) ==
    [Outcome EXCEPT !.tag = "list", !.list = l, !.opened = opened]
ReturnLists(l, opened) ==
    [Outcome EXCEPT !.tag = "lists", !.lists = l, !.opened = opened]
ReturnDict(d, opened) ==
    [Outcome EXCEPT !.tag = "dict", !.dict = d, !.opened = opened]
ReturnLongest(number, len, opened) ==
    [Outcome EXCEPT !.tag = "longest", !.opened = opened,
                    !.longest = [canto_number |-> number, canto_len |-> len]]
ReturnFloat(num, den, opened) ==
    [Outcome EXCEPT !.tag = "float", !.float = <<num, den>>, !.opened = opened]
Raise(tag, path, opened) ==
    [Outcome EXCEPT !.ok = FALSE, !.tag = tag, !.path = path,
                    !.opened = opened]

\* "We couldn't find the word in the text."
NotFoundText ==
    <<"W","e"," ","c","o","u","l","d","n","'","t"," ","f","i","n","d"," ",
      "t","h","e"," ","w","o","r","d"," ","i","n"," ","t","h","e"," ",
      "t","e","x","t",".">>

(***************************************************************************)
(* Virgilio.read_canto_lines                                               *)
(***************************************************************************)
read_canto_lines(canto_number, num_lines, strip_lines) ==
    IF ~canto_number.isint THEN Raise("TypeError", 0, {})
    ELSE IF canto_number.v < 1 \/ canto_number.v > LastCanto
    THEN Raise("CantoNotFoundError", 0, {})
    ELSE LET path == canto_number.v
             file == files[path]
         IN  IF ~file.readable THEN Raise("Exception", path, {path})
             ELSE LET lines == IF Falsy(num_lines)
                               THEN ReadLines(file.text)
                               ELSE ReadLineTimes(file.text, num_lines.v)
                  IN  ReturnList(IF strip_lines THEN StripAll(lines) ELSE lines,
                                 {path})

(***************************************************************************)
(* Per-canto queries.                                                      *)
(***************************************************************************)
\* count_verses, were a failed read taken for an empty canto
count_verses_swallowing(canto_number) ==
    LET r == read_canto_lines(canto_number, Unset, FALSE)
    IN  IF r.ok THEN ReturnInt(Len(r.list), r.opened)
        ELSE IF r.tag = "Exception" THEN ReturnInt(0, r.opened)
        ELSE r

count_verses(canto_number) ==
    LET r == read_canto_lines(canto_number, Unset, FALSE)
    IN  IF r.ok THEN ReturnInt(Len(r.list), r.opened) ELSE r

count_tercets(canto_number) ==
    LET r == count_verses(canto_number)
    IN  IF r.ok THEN ReturnInt(r.int \div TercetSize, r.opened) ELSE r

count_word(canto_number, word) ==
    LET r == read_canto_lines(canto_number, Unset, FALSE)
    IN  IF r.ok THEN ReturnInt(StrCount(Join(<<NL>>, r.list), word), r.opened)
        ELSE r

\* index of the first line of lines from index i on that contains word,
\* 0 when there is none
RECURSIVE FirstWith(_, _, _)
FirstWith(lines, word, i) ==
    IF i > Len(lines) THEN 0
    ELSE IF Contains(lines[i], word) THEN i
    ELSE FirstWith(lines, word, i + 1)

\* get_verse_with_word, were the verse returned as read
get_verse_with_word_unstripped(canto_number, word) ==
    LET r == read_canto_lines(canto_number, Unset, FALSE)
    IN  IF r.ok
        THEN LET i == FirstWith(r.list, word, 1)
             IN  IF i # 0 THEN ReturnStr(r.list[i], r.opened)
                 ELSE ReturnStr(NotFoundText, r.opened)
        ELSE r

get_verse_with_word(canto_number, word) ==
    LET r == read_canto_lines(canto_number, Unset, FALSE)
    IN  IF r.ok
        THEN LET i == FirstWith(r.list, word, 1)
             IN  IF i # 0 THEN ReturnStr(Strip(r.list[i]), r.opened)
                 ELSE ReturnStr(NotFoundText, r.opened)
        ELSE r

get_verses_with_word(canto_number, word) ==
    LET r == read_canto_lines(canto_number, Unset, FALSE)
    IN  IF r.ok
        THEN LET lines_with_word ==
                     SelectSeq(r.list, LAMBDA line : Contains(line, word))
             IN  IF lines_with_word = <<>>
                 THEN ReturnStr(NotFoundText, r.opened)
                 ELSE ReturnList(lines_with_word, r.opened)
        ELSE r

\* the loop of get_longest_verse, were the comparison >=
RECURSIVE LongestFromLastWins(_, _, _)
LongestFromLastWins(lines, i, longest_verse) ==
    IF i > Len(lines) THEN longest_verse
    ELSE LongestFromLastWins(lines, i + 1,
                             IF Len(lines[i]) >= Len(longest_verse)
                             THEN lines[i] ELSE longest_verse)

\* the loop of get_longest_verse from line i on, longest_verse so far
RECURSIVE LongestFrom(_, _, _)
LongestFrom(lines, i, longest_verse) ==
    IF i > Len(lines) THEN longest_verse
    ELSE LongestFrom(lines, i + 1,
                     IF Len(lines[i]) > Len(longest_verse)
                     THEN lines[i] ELSE longest_verse)

get_longest_verse(canto_number) ==
    LET r == read_canto_lines(canto_number, Unset, FALSE)
    IN  IF r.ok THEN ReturnStr(Strip(LongestFrom(r.list, 1, <<>>)), r.opened)
        ELSE r

(***************************************************************************)
(* Corpus-wide aggregates.                                                 *)
(***************************************************************************)
\* canto_length = None
NoLength == [isnone |-> TRUE, v |-> 0]
Length(n) == [isnone |-> FALSE, v |-> n]

\* the loop of get_longest_canto, were the comparison >=
RECURSIVE LongestCantoFromLastWins(_, _, _, _)
LongestCantoFromLastWins(number, canto_length, canto_number, opened) ==
    IF number > LastCanto
    THEN ReturnLongest(canto_number, canto_length.v, opened)
    ELSE LET r == count_verses(IntArg(number))
         IN  IF ~r.ok THEN Raise(r.tag, r.path, opened \cup r.opened)
             ELSE IF canto_length.isnone \/ r.int >= canto_length.v
             THEN LongestCantoFromLastWins(number + 1, Length(r.int), number,
                                           opened \cup r.opened)
             ELSE LongestCantoFromLastWins(number + 1, canto_length,
                                           canto_number, opened \cup r.opened)

\* the loop of get_longest_canto from canto number on
RECURSIVE LongestCantoFrom(_, _, _, _)
LongestCantoFrom(number, canto_length, canto_number, opened) ==
    IF number > LastCanto
    THEN ReturnLongest(canto_number, canto_length.v, opened)
    ELSE LET r == count_verses(IntArg(number))
         IN  IF ~r.ok THEN Raise(r.tag, r.path, opened \cup r.opened)
             ELSE IF canto_length.isnone \/ r.int > canto_length.v
             THEN LongestCantoFrom(number + 1, Length(r.int), number,
                                   opened \cup r.opened)
             ELSE LongestCantoFrom(number + 1, canto_length, canto_number,
                                   opened \cup r.opened)

get_longest_canto == LongestCantoFrom(1, NoLength, 0, {})

\* the loop of get_hell_verses from canto number on
RECURSIVE HellVersesFrom(_, _, _)
HellVersesFrom(number, all_verses, opened) ==
    IF number > LastCanto THEN ReturnLists(all_verses, opened)
    ELSE LET r == read_canto_lines(IntArg(number), Unset, FALSE)
         IN  IF ~r.ok THEN Raise(r.tag, r.path, opened \cup r.opened)
             ELSE HellVersesFrom(number + 1, Append(all_verses, r.list),
                                 opened \cup r.opened)

get_hell_verses == HellVersesFrom(1, <<>>, {})

\* the loop of count_hell_verses from canto number on
RECURSIVE CountHellFrom(_, _, _)
CountHellFrom(number, total_hell_verses, opened) ==
    IF number > LastCanto THEN ReturnInt(total_hell_verses, opened)
    ELSE LET r == count_verses(IntArg(number))
         IN  IF ~r.ok THEN Raise(r.tag, r.path, opened \cup r.opened)
             ELSE CountHellFrom(number + 1, total_hell_verses + r.int,
                                opened \cup r.opened)

count_hell_verses == CountHellFrom(1, 0, {})

RECURSIVE SumStrippedLen(_)
SumStrippedLen(lines) ==
    IF lines = <<>> THEN 0
    ELSE Len(Strip(Head(lines))) + SumStrippedLen(Tail(lines))

\* the loop of get_hell_verse_mean_len from canto number on, then the
\* division; the float returned is the pair <<numerator, denominator>>
RECURSIVE MeanLenFrom(_, _, _)
MeanLenFrom(number, total_verses_length, opened) ==
    IF number > LastCanto
    THEN LET c == count_hell_verses
         IN  IF ~c.ok THEN Raise(c.tag, c.path, opened \cup c.opened)
             ELSE IF c.int = 0
             THEN Raise("ZeroDivisionError", 0, opened \cup c.opened)
             ELSE ReturnFloat(total_verses_length, c.int,
                              opened \cup c.opened)
    ELSE LET r == read_canto_lines(IntArg(number), Unset, FALSE)
         IN  IF ~r.ok THEN Raise(r.tag, r.path, opened \cup r.opened)
             ELSE MeanLenFrom(number + 1,
                              total_verses_length + SumStrippedLen(r.list),
                              opened \cup r.opened)

get_hell_verse_mean_len == MeanLenFrom(1, 0, {})

(***************************************************************************)
(* json.dump(word_repetitions, file, ensure_ascii=False, indent=4)         *)
(***************************************************************************)
DigitChars == <<"0", "1", "2", "3", "4", "5", "6", "7", "8", "9">>

\* str(n) for n >= 0
RECURSIVE IntText(_)
IntText(n) ==
    IF n < 10 THEN <<DigitChars[n + 1]>>
    ELSE IntText(n \div 10) \o <<DigitChars[(n % 10) + 1]>>

\* the JSON string escape of one character
EscapeChar(c) ==
    IF c = QUOTE THEN <<BACKSLASH, QUOTE>>
    ELSE IF c = BACKSLASH THEN <<BACKSLASH, BACKSLASH>>
    ELSE IF c = NL THEN <<BACKSLASH, "n">>
    ELSE <<c>>

RECURSIVE EscapeText(_)
EscapeText(s) ==
    IF s = <<>> THEN <<>> ELSE EscapeChar(Head(s)) \o EscapeText(Tail(s))

RECURSIVE Spaces(_)
Spaces(n) == IF n = 0 THEN <<>> ELSE <<" ">> \o Spaces(n - 1)

JsonItem(item) ==
    Spaces(Indent) \o <<QUOTE>> \o EscapeText(item[1]) \o <<QUOTE, ":", " ">>
        \o IntText(item[2])

RECURSIVE JsonItems(_)
JsonItems(d) ==
    IF Len(d) = 1 THEN JsonItem(d[1])
    ELSE JsonItem(d[1]) \o <<",", NL>> \o JsonItems(Tail(d))

JsonDump(d) ==
    IF d = <<>> THEN <<"{", "}">>
    ELSE <<"{", NL>> \o JsonItems(d) \o <<NL, "}">>

(***************************************************************************)
(* Virgilio.count_words                                                    *)
(***************************************************************************)
\* word_repetitions[word] = number_of_repetitions: a key already in the
\* dict keeps its place
RECURSIVE DictSet(_, _, _)
DictSet(d, key, value) ==
    IF d = <<>> THEN <<<<key, value>>>>
    ELSE IF Head(d)[1] = key THEN <<<<key, value>>>> \o Tail(d)
    ELSE <<Head(d)>> \o DictSet(Tail(d), key, value)

\* the loop of count_words, were a word recorded whether it occurs or not
RECURSIVE WordRepetitionsRecordingAll(_, _, _, _, _)
WordRepetitionsRecordingAll(canto_number, words, i, word_repetitions, opened) ==
    IF i > Len(words) THEN ReturnDict(word_repetitions, opened)
    ELSE LET r == read_canto_lines(canto_number, Unset, FALSE)
         IN  IF ~r.ok THEN Raise(r.tag, r.path, opened \cup r.opened)
             ELSE WordRepetitionsRecordingAll(canto_number, words, i + 1,
                      DictSet(word_repetitions, words[i],
                              StrCount(Join(<<NL>>, r.list), words[i])),
                      opened \cup r.opened)

\* the loop of count_words from the i-th word on
RECURSIVE WordRepetitionsFrom(_, _, _, _, _)
WordRepetitionsFrom(canto_number, words, i, word_repetitions, opened) ==
    IF i > Len(words) THEN ReturnDict(word_repetitions, opened)
    ELSE LET r == read_canto_lines(canto_number, Unset, FALSE)
         IN  IF ~r.ok THEN Raise(r.tag, r.path, opened \cup r.opened)
             ELSE LET canto_string == Join(<<NL>>, r.list)
                      current_word == words[i]
                  IN  WordRepetitionsFrom(canto_number, words, i + 1,
                          IF Contains(canto_string, current_word)
                          THEN DictSet(word_repetitions, current_word,
                                       StrCount(canto_string, current_word))
                          ELSE word_repetitions,
                          opened \cup r.opened)

word_repetitions_of(canto_number, words) ==
    WordRepetitionsFrom(canto_number, words, 1, <<>>, {})

\* word_counts.json on disk
NoFile == [exists |-> FALSE, text |-> <<>>]
Stored(t) == [exists |-> TRUE, text |-> t]

\* open(json_file_path, ...), were the content of the file kept
OpenKeepingContent(f) == Stored(f.text)

\* open(json_file_path, "w"): the file is created or truncated
OpenForWriting(f) == Stored(<<>>)

\* count_words: what it gives back, and word_counts.json after it given
\* the file before it
count_words(canto_number, words) ==
    LET r == word_repetitions_of(canto_number, words)
    IN  IF r.ok THEN ReturnDict(r.dict, r.opened \cup {WordCountsPath}) ELSE r

count_words_file(canto_number, words, before) ==
    LET r == word_repetitions_of(canto_number, words)
    IN  IF r.ok THEN Stored(OpenForWriting(before).text \o JsonDump(r.dict))
        ELSE before

(***************************************************************************)
(* The corpora and the arguments tried.                                    *)
(***************************************************************************)
Chars == {"a", " ", NL}

\* the texts of exactly k characters, and of at most MaxLen
RECURSIVE TextsOfLen(_)
TextsOfLen(k) ==
    IF k = 0 THEN {<<>>}
    ELSE {Append(t, c) : t \in TextsOfLen(k - 1), c \in Chars}

Texts == UNION {TextsOfLen(k) : k \in 0..MaxLen}

\* "Nel mezzo del cammin\ndi nostra vita\nmi ritrovai"
DanteText ==
    <<"N","e","l"," ","m","e","z","z","o"," ","d","e","l"," ",
      "c","a","m","m","i","n",NL,
      "d","i"," ","n","o","s","t","r","a"," ","v","i","t","a",NL,
      "m","i"," ","r","i","t","r","o","v","a","i">>

\* the canto whose text is varied
FocusCanto == 3

\* the cantos whose line count is varied
HotCantos == {1, 2, LastCanto}

\* a file of k lines "a\n"
RECURSIVE LineText(_)
LineText(k) == IF k = 0 THEN <<>> ELSE <<"a", NL>> \o LineText(k - 1)

LineFiles == {File(LineText(k)) : k \in 0..MaxLines} \cup {Unreadable}

\* every canto empty but the focus canto
TextCorpora ==
    {[n \in Cantos |-> IF n = FocusCanto THEN f ELSE File(<<>>)] :
        f \in {File(t) : t \in Texts \cup {DanteText}} \cup {Unreadable}}

\* every canto with the same number of lines but the hot cantos
LineCorpora ==
    {[n \in Cantos |-> IF n \in HotCantos THEN h[n] ELSE File(LineText(b))] :
        h \in [HotCantos -> LineFiles], b \in 0..1}

ArgCantos ==
    {IntArg(0), IntArg(1), IntArg(FocusCanto), IntArg(LastCanto),
     IntArg(LastCanto + 1), NonIntArg(FocusCanto)}

ArgNumLines == {Unset} \cup {Given(k) : k \in 0..MaxNumLines}

W_a == <<"a">>
W_aa == <<"a", "a">>
W_mi == <<"m", "i">>
W_ta == <<"t", "a">>
W_mezzo == <<"m", "e", "z", "z", "o">>
W_assente == <<"a", "s", "s", "e", "n", "t", "e">>

ArgWords == {<<>>, W_a, W_aa, <<" ">>, <<NL>>, W_mi, W_ta}

ArgWordLists ==
    {<<>>, <<W_a>>, <<W_aa, <<NL>>, W_aa>>, <<W_a, W_mi, <<>>>>,
     <<W_mezzo, W_assente>>}

\* word_counts.json before the first call
InitialWordCounts == {NoFile, Stored(<<"x">>)}

NoArgs ==
    [op |-> "none", canto_number |-> IntArg(0), num_lines |-> Unset,
     strip_lines |-> FALSE, word |-> <<>>, words |-> <<>>]

NoResult == Outcome

(***************************************************************************)
(* The caller: one call at a time, each call one atomic step.              *)
(***************************************************************************)
Init ==
    /\ files \in TextCorpora \cup LineCorpora
    /\ wordCounts \in InitialWordCounts
    /\ pc = "ready"
    /\ call = NoArgs
    /\ result = NoResult
    /\ proc = <<>>
    /\ log = <<>>

Returns(c, r) ==
    /\ pc = "ready"
    /\ pc' = "returned"
    /\ call' = c
    /\ result' = r
    /\ UNCHANGED <<files, proc, log>>

ReadCantoLines ==
    \E n \in ArgCantos, k \in ArgNumLines, s \in BOOLEAN :
        /\ Returns([NoArgs EXCEPT !.op = "read_canto_lines", !.canto_number = n,
                                  !.num_lines = k, !.strip_lines = s],
                   read_canto_lines(n, k, s))
        /\ UNCHANGED wordCounts

CountVerses ==
    \E n \in ArgCantos :
        /\ Returns([NoArgs EXCEPT !.op = "count_verses", !.canto_number = n],
                   count_verses(n))
        /\ UNCHANGED wordCounts

CountTercets ==
    \E n \in ArgCantos :
        /\ Returns([NoArgs EXCEPT !.op = "count_tercets", !.canto_number = n],
                   count_tercets(n))
        /\ UNCHANGED wordCounts

CountWord ==
    \E n \in ArgCantos, w \in ArgWords :
        /\ Returns([NoArgs EXCEPT !.op = "count_word", !.canto_number = n,
                                  !.word = w],
                   count_word(n, w))
        /\ UNCHANGED wordCounts

GetVerseWithWord ==
    \E n \in ArgCantos, w \in ArgWords :
        /\ Returns([NoArgs EXCEPT !.op = "get_verse_with_word",
                                  !.canto_number = n, !.word = w],
                   get_verse_with_word(n, w))
        /\ UNCHANGED wordCounts

GetVersesWithWord ==
    \E n \in ArgCantos, w \in ArgWords :
        /\ Returns([NoArgs EXCEPT !.op = "get_verses_with_word",
                                  !.canto_number = n, !.word = w],
                   get_verses_with_word(n, w))
        /\ UNCHANGED wordCounts

GetLongestVerse ==
    \E n \in ArgCantos :
        /\ Returns([NoArgs EXCEPT !.op = "get_longest_verse", !.canto_number = n],
                   get_longest_verse(n))
        /\ UNCHANGED wordCounts

GetLongestCanto ==
    /\ Returns([NoArgs EXCEPT !.op = "get_longest_canto"], get_longest_canto)
    /\ UNCHANGED wordCounts

CountWords ==
    \E n \in ArgCantos, ws \in ArgWordLists :
        /\ Returns([NoArgs EXCEPT !.op = "count_words", !.canto_number = n,
                                  !.words = ws],
                   count_words(n, ws))
        /\ wordCounts' = count_words_file(n, ws, wordCounts)

GetHellVerses ==
    /\ Returns([NoArgs EXCEPT !.op = "get_hell_verses"], get_hell_verses)
    /\ UNCHANGED wordCounts

CountHellVerses ==
    /\ Returns([NoArgs EXCEPT !.op = "count_hell_verses"], count_hell_verses)
    /\ UNCHANGED wordCounts

GetHellVerseMeanLen ==
    /\ Returns([NoArgs EXCEPT !.op = "get_hell_verse_mean_len"],
               get_hell_verse_mean_len)
    /\ UNCHANGED wordCounts

\* the caller has the result and is ready for its next call
NextCall ==
    /\ pc = "returned"
    /\ pc' = "ready"
    /\ call' = NoArgs
    /\ result' = NoResult
    /\ UNCHANGED <<files, wordCounts, proc, log>>

Next ==
    \/ ReadCantoLines
    \/ CountVerses
    \/ CountTercets
    \/ CountWord
    \/ GetVerseWithWord
    \/ GetVersesWithWord
    \/ GetLongestVerse
    \/ GetLongestCanto
    \/ CountWords
    \/ GetHellVerses
    \/ CountHellVerses
    \/ GetHellVerseMeanLen
    \/ NextCall

Spec == Init /\ [][Next]_vars

(***************************************************************************)
(* Reading word_counts.json back (json.load), for the properties that      *)
(* speak of the mapping the file holds.                                    *)
(***************************************************************************)
RECURSIVE SkipSpace(_, _)
SkipSpace(t, p) ==
    IF p <= Len(t) /\ t[p] \in Whitespace THEN SkipSpace(t, p + 1) ELSE p

Malformed == [ok |-> FALSE, v |-> <<>>, next |-> 0]
Parsed(v, next) == [ok |-> TRUE, v |-> v, next |-> next]

Unescape(c) == IF c = "n" THEN NL ELSE c

\* the characters of a JSON string from position p, just after its
\* opening quote
RECURSIVE JsonStringBody(_, _, _)
JsonStringBody(t, p, acc) ==
    IF p > Len(t) THEN Malformed
    ELSE IF t[p] = QUOTE THEN Parsed(acc, p + 1)
    ELSE IF t[p] = BACKSLASH
    THEN IF p + 1 > Len(t) THEN Malformed
         ELSE JsonStringBody(t, p + 2, Append(acc, Unescape(t[p + 1])))
    ELSE JsonStringBody(t, p + 1, Append(acc, t[p]))

DigitValue(c) == CHOOSE d \in 0..9 : DigitChars[d + 1] = c

IsDigit(c) == \E d \in 0..9 : DigitChars[d + 1] = c

RECURSIVE JsonDigits(_, _, _)
JsonDigits(t, p, acc) ==
    IF p <= Len(t) /\ IsDigit(t[p])
    THEN JsonDigits(t, p + 1, 10 * acc + DigitValue(t[p]))
    ELSE Parsed(acc, p)

JsonInt(t, p) ==
    IF p <= Len(t) /\ IsDigit(t[p]) THEN JsonDigits(t, p, 0) ELSE Malformed

\* the items of a JSON object from position p, where a key is due
RECURSIVE JsonObjectItems(_, _, _)
JsonObjectItems(t, p, acc) ==
    LET q == SkipSpace(t, p)
    IN  IF q > Len(t) \/ t[q] # QUOTE THEN Malformed
        ELSE LET key == JsonStringBody(t, q + 1, <<>>)
                 colon == SkipSpace(t, key.next)
             IN  IF ~key.ok \/ colon > Len(t) \/ t[colon] # ":" THEN Malformed
                 ELSE LET value == JsonInt(t, SkipSpace(t, colon + 1))
                          after == SkipSpace(t, value.next)
                      IN  IF ~value.ok \/ after > Len(t) THEN Malformed
                          ELSE IF t[after] = ","
                          THEN JsonObjectItems(t, after + 1,
                                   DictSet(acc, key.v, value.v))
                          ELSE IF t[after] = "}"
                               /\ SkipSpace(t, after + 1) > Len(t)
                          THEN Parsed(DictSet(acc, key.v, value.v), after + 1)
                          ELSE Malformed

JsonLoad(t) ==
    LET open == SkipSpace(t, 1)
    IN  IF open > Len(t) \/ t[open] # "{" THEN Malformed
        ELSE LET q == SkipSpace(t, open + 1)
             IN  IF q <= Len(t) /\ t[q] = "}" /\ SkipSpace(t, q + 1) > Len(t)
                 THEN Parsed(<<>>, q + 1)
                 ELSE JsonObjectItems(t, open + 1, <<>>)

\* the mapping word_counts.json holds, when it holds one
Holds(f, d) ==
    /\ f.exists
    /\ LET m == JsonLoad(f.text) IN m.ok /\ m.v = d

(***************************************************************************)
(* Vocabulary of the properties.                                           *)
(***************************************************************************)
Returned(op) == pc = "returned" /\ call.op = op

CantoOps ==
    {"read_canto_lines", "count_verses", "count_tercets", "count_word",
     "get_verse_with_word", "get_verses_with_word", "get_longest_verse",
     "count_words"}

CorpusOps ==
    {"get_longest_canto", "get_hell_verses", "count_hell_verses",
     "get_hell_verse_mean_len"}

ValidCanto(c) == c.isint /\ c.v \in Cantos

Keys(d) == {d[i][1] : i \in 1..Len(d)}

ValueAt(d, k) == d[CHOOSE i \in 1..Len(d) : d[i][1] = k][2]

Range(q) == {q[i] : i \in 1..Len(q)}

\* the lines of canto n as they are in its file
LinesOf(n) == ReadLines(files[n].text)

\* C1: a call with a canto number that is not an integer fails with
\* TypeError, one with an integer outside 1..34 fails with
\* CantoNotFoundError, and neither opens any file of the directory,
\* word_counts.json included - for every operation taking a canto number
\* and every value of the other arguments, the empty word list included.
C1_InvalidCantoRejectedBeforeFileAccess ==
    (pc = "returned" /\ call.op \in CantoOps /\ ~ValidCanto(call.canto_number))
    => /\ ~result.ok
       /\ result.tag = (IF call.canto_number.isint THEN "CantoNotFoundError"
                        ELSE "TypeError")
       /\ result.opened = {}

\* C2: read_canto_lines(n, num_lines=k) on a valid, readable canto returns
\* exactly k entries for every k >= 0, the i-th being the i-th line of the
\* file (stripped when strip_lines) for i up to min(k, lines of the file).
C2_MaxLinesCapsResult ==
    (Returned("read_canto_lines") /\ ValidCanto(call.canto_number)
        /\ files[call.canto_number.v].readable /\ call.num_lines.given)
    => LET lines == LinesOf(call.canto_number.v)
           k == call.num_lines.v
       IN  /\ result.ok
           /\ Len(result.list) = k
           /\ \A i \in 1..k :
                 i <= Len(lines) =>
                     result.list[i] = IF call.strip_lines THEN Strip(lines[i])
                                   ELSE lines[i]

\* C8: every element of every sequence a successful read_canto_lines
\* returns is a non-empty string.
C8_NoEmptyVerse ==
    (Returned("read_canto_lines") /\ result.ok)
    => \A i \in 1..Len(result.list) : result.list[i] # <<>>

\* C3: a successful count_words(n, ws) on a valid canto returns the
\* mapping whose keys are exactly the words of ws that count_word(n, w)
\* counts at least once, each with that count (one entry per word), and
\* after the call word_counts.json holds exactly the serialization of that
\* mapping, whatever it held before - so a repeated call leaves the same
\* file content.
C3_CountWordsMappingAndExport ==
    (Returned("count_words") /\ ValidCanto(call.canto_number) /\ result.ok)
    => LET n == call.canto_number
           d == result.dict
       IN  /\ result.tag = "dict"
           /\ Keys(d) = {w \in Range(call.words) : count_word(n, w).int >= 1}
           /\ Cardinality(Keys(d)) = Len(d)
           /\ \A w \in Keys(d) : ValueAt(d, w) = count_word(n, w).int
           /\ wordCounts = Stored(JsonDump(d))
           /\ Holds(wordCounts, d)

C3_Witness ==
    /\ Returned("count_words")
    /\ call.canto_number = IntArg(FocusCanto)
    /\ call.words = <<W_mezzo, W_assente>>
    /\ result.dict = <<<<W_mezzo, 1>>>>
    /\ Holds(wordCounts, <<<<W_mezzo, 1>>>>)

\* the positions (from 0) at which w occurs in s
Occurrences(s, w) == {p \in 0..Len(s) : MatchAt(s, w, p)}

NonOverlapping(P, w) ==
    \A p, q \in P : p < q => p + Len(w) <= q

\* the most occurrences of w in s no two of which overlap (no two
\* occurrences of the empty word do)
MostNonOverlapping(s, w) ==
    IF w = <<>> THEN Cardinality(Occurrences(s, w))
    ELSE LET sizes ==
                 {Cardinality(P) : P \in {Q \in SUBSET Occurrences(s, w) :
                                              NonOverlapping(Q, w)}}
         IN  CHOOSE m \in sizes : \A k \in sizes : k <= m

IsDanteCanto(c) ==
    c = IntArg(FocusCanto) /\ files[FocusCanto] = File(DanteText)

CountWordCounts ==
    LET canto_string == Join(<<NL>>, LinesOf(call.canto_number.v))
    IN  /\ result.tag = "int"
        /\ result.int = MostNonOverlapping(canto_string, call.word)

\* C5 as stated: count_word(n, w) is the number of non-overlapping
\* occurrences of w in the verses joined with newlines, which for the
\* three-line canto 3 gives count_word(3, "mi") = 1 and
\* count_word(3, "ta") = 1.
C5_CountWordAsStated ==
    (Returned("count_word") /\ result.ok)
    => /\ CountWordCounts
       /\ IsDanteCanto(call.canto_number) /\ call.word = W_mi => result.int = 1
       /\ IsDanteCanto(call.canto_number) /\ call.word = W_ta => result.int = 1

\* C5 amended: count_word(n, w) is the number of non-overlapping
\* occurrences of w in the verses joined with newlines, which for the
\* three-line canto 3 gives count_word(3, "mi") = 2 ("cammin" and "mi") and
\* count_word(3, "ta") = 1.
C5_CountWordSubstring ==
    (Returned("count_word") /\ result.ok)
    => /\ CountWordCounts
       /\ IsDanteCanto(call.canto_number) /\ call.word = W_mi => result.int = 2
       /\ IsDanteCanto(call.canto_number) /\ call.word = W_ta => result.int = 1

C5_Witness ==
    /\ Returned("count_word")
    /\ IsDanteCanto(call.canto_number)
    /\ call.word = W_mi
    /\ result.int = 2

AllReadable == \A n \in Cantos : files[n].readable

\* C6: on a readable corpus get_longest_canto returns as canto_len the
\* largest count_verses(n) over the 34 cantos and as canto_number the
\* smallest n whose count_verses(n) is that largest.
C6_LongestCantoFirstMax ==
    (Returned("get_longest_canto") /\ AllReadable)
    => LET len(n) == count_verses(IntArg(n)).int
       IN  /\ result.ok
           /\ result.tag = "longest"
           /\ \A n \in Cantos : len(n) <= result.longest.canto_len
           /\ result.longest.canto_number \in Cantos
           /\ len(result.longest.canto_number) = result.longest.canto_len
           /\ \A n \in Cantos :
                 n < result.longest.canto_number
                     => len(n) < result.longest.canto_len

C6_Witness ==
    /\ Returned("get_longest_canto")
    /\ AllReadable
    /\ Len(LinesOf(1)) < Len(LinesOf(2))
    /\ Len(LinesOf(2)) = Len(LinesOf(LastCanto))
    /\ result.longest.canto_number = 2

\* C7: get_longest_verse(n) returns the stripped form of the first line
\* whose length as read (terminator included) is the largest of the canto,
\* and the empty string when the canto has no line.
C7_LongestVerseFirstMax ==
    (Returned("get_longest_verse") /\ result.ok)
    => LET lines == LinesOf(call.canto_number.v)
       IN  /\ result.tag = "str"
           /\ lines = <<>> => result.str = <<>>
           /\ lines # <<>> =>
                \E i \in 1..Len(lines) :
                    /\ \A j \in 1..Len(lines) : Len(lines[j]) <= Len(lines[i])
                    /\ \A j \in 1..(i - 1) : Len(lines[j]) < Len(lines[i])
                    /\ result.str = Strip(lines[i])

\* "a\n" and "aa" are both 2 characters as read: the first is returned
C7_Witness ==
    /\ Returned("get_longest_verse")
    /\ call.canto_number = IntArg(FocusCanto)
    /\ files[FocusCanto] = File(<<"a", NL, "a", "a">>)
    /\ result.str = <<"a">>

\* the elements of a set of integers in increasing order
RECURSIVE Ascending(_)
Ascending(S) ==
    IF S = {} THEN <<>>
    ELSE LET m == CHOOSE x \in S : \A y \in S : x <= y
         IN  <<m>> \o Ascending(S \ {m})

DerivedCantoOps == CantoOps \ {"read_canto_lines"}

SameError(r, e) == ~r.ok /\ ~e.ok /\ r.tag = e.tag /\ r.path = e.path

FirstUnreadable == CHOOSE n \in Cantos :
    ~files[n].readable /\ \A m \in 1..(n - 1) : files[m].readable

\* C10: a derived query whose read of a canto fails fails with the error
\* of that read: the per-canto queries when their canto is unreadable (for
\* count_words, when it has a word to look for), the corpus-wide queries
\* when any canto is unreadable; and a count_words that fails this way
\* leaves word_counts.json as it was.
C10_ReadFailurePropagates ==
    [][(pc = "ready" /\ pc' = "returned") =>
        /\ (/\ call'.op \in DerivedCantoOps
            /\ ValidCanto(call'.canto_number)
            /\ ~files[call'.canto_number.v].readable
            /\ call'.op = "count_words" => call'.words # <<>>)
           => /\ SameError(result',
                      read_canto_lines(call'.canto_number, Unset, FALSE))
              /\ wordCounts' = wordCounts
        /\ (call'.op \in CorpusOps /\ ~AllReadable)
           => SameError(result',
                  read_canto_lines(IntArg(FirstUnreadable), Unset, FALSE))
      ]_vars

C10_Witness ==
    /\ Returned("count_words")
    /\ ~result.ok
    /\ result.tag = "Exception"
    /\ result.path = 1
    /\ wordCounts = Stored(<<"x">>)

(***************************************************************************)
(* Two count_words calls on the same directory, with no synchronization.   *)
(* Each call runs its loop, opens word_counts.json for writing (which      *)
(* truncates it and puts the call's own file position at 0), writes the    *)
(* serialized mapping at its position - all at once when the file is       *)
(* closed, or in several pieces when the buffer of the file object fills   *)
(* before - and closes the file.                                           *)
(***************************************************************************)
Procs == {1, 2}

\* what a byte of the file reads as where nothing was written after a
\* truncation left the position beyond the end of the file
NUL == "NUL"

RECURSIVE Nuls(_)
Nuls(n) == IF n <= 0 THEN <<>> ELSE <<NUL>> \o Nuls(n - 1)

\* the content of a file after chunk is written at position off
WriteAt(text, off, chunk) ==
    LET padded == IF Len(text) < off THEN text \o Nuls(off - Len(text))
                  ELSE text
    IN  SubSeq(padded, 1, off) \o chunk
            \o SubSeq(padded, off + Len(chunk) + 1, Len(padded))

RaceTexts == {<<"a", " ", "a">>, <<"a", NL>>}

RaceCorpora ==
    {[n \in Cantos |-> IF n = FocusCanto THEN f ELSE File(<<>>)] :
        f \in {File(t) : t \in RaceTexts} \cup {Unreadable}}

RaceWordLists == {<<>>, <<W_a>>, <<<<" ">>, W_a>>, <<W_aa>>}

Started(ws) ==
    [pc |-> "start", canto_number |-> IntArg(FocusCanto), words |-> ws,
     dict |-> <<>>, pending |-> <<>>, offset |-> 0]

RaceInit ==
    /\ files \in RaceCorpora
    /\ wordCounts \in InitialWordCounts
    /\ pc = "racing"
    /\ call = NoArgs
    /\ result = NoResult
    /\ proc \in {<<Started(v), Started(w)>> : v, w \in RaceWordLists}
    /\ log = <<>>

\* the loop of count_words: the mapping is computed, or the read raises
RaceCount(p) ==
    /\ proc[p].pc = "start"
    /\ LET r == word_repetitions_of(proc[p].canto_number, proc[p].words)
       IN  proc' = [proc EXCEPT ![p].pc = IF r.ok THEN "counted" ELSE "raised",
                                ![p].dict = r.dict]
    /\ UNCHANGED <<files, wordCounts, pc, call, result, log>>

\* with open(json_file_path, "w", encoding="utf-8") as file
RaceOpen(p) ==
    /\ proc[p].pc = "counted"
    /\ wordCounts' = OpenForWriting(wordCounts)
    /\ proc' = [proc EXCEPT ![p].pc = "open", ![p].offset = 0,
                            ![p].pending = JsonDump(proc[p].dict)]
    /\ log' = Append(log, <<p, "open">>)
    /\ UNCHANGED <<files, pc, call, result>>

\* json.dump fills the buffer of the file object, which writes out a
\* first part of what is pending
RaceFlush(p) ==
    /\ proc[p].pc = "open"
    /\ \E k \in 1..(Len(proc[p].pending) - 1) :
        /\ wordCounts' = Stored(WriteAt(wordCounts.text, proc[p].offset,
                                        SubSeq(proc[p].pending, 1, k)))
        /\ proc' = [proc EXCEPT
                        ![p].offset = @ + k,
                        ![p].pending = SubSeq(@, k + 1, Len(@))]
    /\ UNCHANGED <<files, pc, call, result, log>>

\* leaving the with block: what is pending is written and the file closed
RaceClose(p) ==
    /\ proc[p].pc = "open"
    /\ wordCounts' = Stored(WriteAt(wordCounts.text, proc[p].offset,
                                    proc[p].pending))
    /\ proc' = [proc EXCEPT ![p].pc = "done",
                            ![p].offset = @ + Len(proc[p].pending),
                            ![p].pending = <<>>]
    /\ log' = Append(log, <<p, "close">>)
    /\ UNCHANGED <<files, pc, call, result>>

RaceNext ==
    \E p \in Procs :
        \/ RaceCount(p)
        \/ RaceOpen(p)
        \/ RaceFlush(p)
        \/ RaceClose(p)

SpecRace == RaceInit /\ [][RaceNext]_vars

BothWrote == \A p \in Procs : proc[p].pc = "done"

\* the call whose write finished last
LastWriter == log[Len(log)][1]

\* one call opened the file while the other had it open
Overlapped ==
    \E i \in 1..(Len(log) - 1) : log[i][2] = "open" /\ log[i + 1][2] = "open"

\* C4 as stated: in every interleaving of two unsynchronized count_words
\* calls, once both have completed word_counts.json holds exactly the
\* complete mapping of the call whose write finished last.
C4_LastWriterWinsAlways ==
    BothWrote => wordCounts = Stored(JsonDump(proc[LastWriter].dict))

\* C4 amended: once both calls have completed word_counts.json is not
\* empty, and when neither call opened the file while the other had it
\* open it holds exactly the complete mapping of the call whose write
\* finished last.
C4_LastWriterWinsWhenNotOverlapped ==
    BothWrote =>
        /\ wordCounts.exists
        /\ wordCounts.text # <<>>
        /\ ~Overlapped =>
              /\ wordCounts = Stored(JsonDump(proc[LastWriter].dict))
              /\ Holds(wordCounts, proc[LastWriter].dict)

\* the second call wrote a shorter mapping after the first, one after
\* the other
C4_Witness ==
    /\ BothWrote
    /\ ~Overlapped
    /\ LastWriter = 2
    /\ Len(JsonDump(proc[2].dict)) < Len(JsonDump(proc[1].dict))
    /\ Holds(wordCounts, proc[2].dict)
====
